---- MODULE Spec2Model ----
(***************************************************************************)
(* MusicBrainz-cli: the rate-limited request client (src/api.py) and the   *)
(* identifier resolver (src/main.py).                                      *)
(*                                                                         *)
(* Text is modelled as a sequence of one-character strings, so that        *)
(* pattern matching, concatenation and substring tests are computed        *)
(* character by character as the Python code computes them.                *)
(***************************************************************************)
EXTENDS Integers, Sequences, FiniteSets, TLC

VARIABLES
    now,        \* the value time.time() returns, in clock ticks
    last,       \* last[i]: _last_request_time of client instance i
    pc,         \* position of the single thread inside _make_request
    cur,        \* the instance whose method is running
    op,         \* the kind of endpoint operation that is running
    wakeAt,     \* earliest tick at which the pending time.sleep may return
    stamps,     \* writes of _last_request_time made by the running call
    inits,      \* history: <<instance, timestamp>> of every call, in order
    wire,       \* history: what the transport did with the last dispatch
    result,     \* what the last finished _make_request returned or raised
    mpc,        \* is_valid_mbid: "idle" or "done"
    arg,        \* is_valid_mbid: the argument of the last evaluation
    valid,      \* is_valid_mbid: the value it returned
    rpc,        \* resolver: "idle", "searching" (inside the search call), "done"
    rkind,      \* resolver: "artist" (resolve_artist_mbid) or "release"
    query,      \* resolver: the query text
    artist,     \* resolver: the artist argument (None or a text)
    calls,      \* resolver: calls made on the client so far
    searchArg,  \* resolver: arguments of the search call it made
    resp,       \* resolver: what the search call returned or raised
    rout,       \* resolver: what the resolver returned or raised
    qpc,        \* request: "idle" or "built"
    qcall,      \* request: what the caller passed and the call it made
    qreq,       \* request: the Request _make_request built
    cpc,        \* command: "start", "resolving", "lookup", "browse", "render",
                \* "exited"
    cmd,        \* command: the subcommand that runs
    cargs,      \* command: the parsed arguments
    clog,       \* command: the outbound calls made, in order, with outcomes
    entityDoc,  \* command: the document the lookup returned
    listing,    \* command: the document the browse returned
    shown,      \* command: what the handler printed of the entity
    stderr,     \* command: what was printed to the error stream
    exit,       \* command: the exit status, or Running
    cint,       \* history: where a user interrupt arrived, or <<>>
    fpc,        \* formatting: "idle" or "done"
    fcall,      \* formatting: the function called and its arguments
    fout        \* formatting: the text it returned

clientVars == <<now, last, pc, cur, op, wakeAt, stamps, inits, wire, result>>
mbidVars == <<mpc, arg, valid>>
resolverVars == <<rpc, rkind, query, artist, calls, searchArg, resp, rout>>
requestVars == <<qpc, qcall, qreq>>
cmdVars == <<cpc, cmd, cargs, clog, entityDoc, listing, shown, stderr, exit, cint>>
formatVars == <<fpc, fcall, fout>>
vars == <<clientVars, mbidVars, resolverVars, requestVars, cmdVars, formatVars>>

\* what the steps of one component leave alone
nonClient == <<mbidVars, resolverVars, requestVars, cmdVars, formatVars>>
nonMbid == <<clientVars, resolverVars, requestVars, cmdVars, formatVars>>
nonResolver == <<clientVars, mbidVars, requestVars, cmdVars, formatVars>>
nonRequest == <<clientVars, mbidVars, resolverVars, cmdVars, formatVars>>
nonCmd == <<clientVars, mbidVars, requestVars, formatVars>>
nonFormat == <<clientVars, mbidVars, resolverVars, requestVars, cmdVars>>

----------------------------------------------------------------------------
(* Bounds of the model *)

NumClients == 2          \* MusicBrainzAPI instances alive in the process
TicksPerSecond == 2      \* resolution of the modelled clock
EpochSlack == 1          \* ticks by which the start clock exceeds RATE_LIMIT
Horizon == 6             \* ticks the clock may advance during a run
MaxCalls == 3            \* calls made during a run

(* Program constants *)

RATE_LIMIT_SECONDS == 1
RATE_LIMIT == RATE_LIMIT_SECONDS * TicksPerSecond

Instances == 1..NumClients
ClockStart == RATE_LIMIT + EpochSlack
MaxTime == ClockStart + Horizon
Ops == {"search", "lookup", "browse"}

----------------------------------------------------------------------------
(* Text helpers *)

Digit == <<"0", "1", "2", "3", "4", "5", "6", "7", "8", "9">>

\* str(n) for a natural number n: its decimal digits, most significant first
RECURSIVE IntToStr(_)
IntToStr(n) ==
    IF n < 10 THEN <<Digit[n + 1]>>
    ELSE IntToStr(n \div 10) \o <<Digit[(n % 10) + 1]>>

\* Python's `needle in haystack` for text
Contains(hay, needle) ==
    \E p \in 1..(Len(hay) - Len(needle) + 1) :
        SubSeq(hay, p, p + Len(needle) - 1) = needle

----------------------------------------------------------------------------
(* String literals of src/api.py *)

MSG_503 ==
    <<"M", "u", "s", "i", "c", "B", "r", "a", "i", "n", "z", " ", "s", "e",
      "r", "v", "i", "c", "e", " ", "u", "n", "a", "v", "a", "i", "l", "a",
      "b", "l", "e", " ", "(", "5", "0", "3", ")", ".", " ", "T", "r", "y",
      " ", "a", "g", "a", "i", "n", " ", "l", "a", "t", "e", "r", ".">>

MSG_400 ==
    <<"B", "a", "d", " ", "r", "e", "q", "u", "e", "s", "t", " ", "(", "4",
      "0", "0", ")", ".", " ", "C", "h", "e", "c", "k", " ", "y", "o", "u",
      "r", " ", "q", "u", "e", "r", "y", " ", "p", "a", "r", "a", "m", "e",
      "t", "e", "r", "s", ".">>

MSG_HTTP ==
    <<"H", "T", "T", "P", " ">>

MSG_SEP ==
    <<":", " ">>

MSG_NETWORK ==
    <<"N", "e", "t", "w", "o", "r", "k", " ", "e", "r", "r", "o", "r", ":",
      " ">>

MSG_JSON ==
    <<"I", "n", "v", "a", "l", "i", "d", " ", "J", "S", "O", "N", " ", "r",
      "e", "s", "p", "o", "n", "s", "e", ":", " ">>

MSG_UNEXPECTED ==
    <<"U", "n", "e", "x", "p", "e", "c", "t", "e", "d", " ", "e", "r", "r",
      "o", "r", ":", " ">>

----------------------------------------------------------------------------
(* Python dictionaries are functions whose domain is the set of keys present *)

\* dict.get(key, default)
Get(d, k, default) == IF k \in DOMAIN d THEN d[k] ELSE default

\* the document _make_request returns for status 404
NOT_FOUND_DOC == [error |-> "not_found", message |-> "Entity not found"]

----------------------------------------------------------------------------
(* What urlopen / read / json.loads can do with a dispatched request *)

HttpErrorCodes == {400, 404, 429, 500, 503}
Reasons == {<<"D", "o", "w", "n">>, <<"N", "o">>}
Bodies == {[artists |-> <<>>], [releases |-> <<>>, count |-> 0]}

Transport(t, code, text, doc) == [t |-> t, code |-> code, text |-> text, doc |-> doc]

NoTransport == Transport("none", 0, <<>>, <<>>)

Transports ==
    {Transport("ok", 200, <<>>, d) : d \in Bodies}
    \cup {Transport("HTTPError", c, r, <<>>) : c \in HttpErrorCodes, r \in Reasons}
    \cup {Transport("URLError", 0, r, <<>>) : r \in Reasons}
    \cup {Transport("JSONDecodeError", 200, <<"E", "x", "p", "e", "c", "t">>, <<>>)}
    \cup {Transport("Exception", 0, r, <<>>) : r \in Reasons}
    \cup {Transport("KeyboardInterrupt", 0, <<>>, <<>>)}

Return(doc) == [kind |-> "return", exc |-> "", msg |-> <<>>, doc |-> doc]
Raise(exc, msg) == [kind |-> "raise", exc |-> exc, msg |-> msg, doc |-> <<>>]
NoResult == [kind |-> "none", exc |-> "", msg |-> <<>>, doc |-> <<>>]

\* mutant: status 404 is treated like any other error status
OnHTTPError_Raise404(code, reason) ==
    IF code = 503 THEN Raise("APIError", MSG_503)
    ELSE IF code = 400 THEN Raise("APIError", MSG_400)
    ELSE Raise("APIError", MSG_HTTP \o IntToStr(code) \o MSG_SEP \o reason)

\* mutant: the generic branch reports the reason phrase without the status
OnHTTPError_ReasonOnly(code, reason) ==
    IF code = 404 THEN Return(NOT_FOUND_DOC)
    ELSE IF code = 503 THEN Raise("APIError", MSG_503)
    ELSE IF code = 400 THEN Raise("APIError", MSG_400)
    ELSE Raise("APIError", MSG_HTTP \o MSG_SEP \o reason)

\* the except HTTPError clause of _make_request
OnHTTPError(code, reason) ==
    IF code = 404 THEN Return(NOT_FOUND_DOC)
    ELSE IF code = 503 THEN Raise("APIError", MSG_503)
    ELSE IF code = 400 THEN Raise("APIError", MSG_400)
    ELSE Raise("APIError", MSG_HTTP \o IntToStr(code) \o MSG_SEP \o reason)

\* mutant: the except json.JSONDecodeError clause is missing, so that the
\* decode error (a ValueError) reaches the except Exception clause
MakeRequestResult_NoJsonClause(tr) ==
    CASE tr.t = "ok" -> Return(tr.doc)
      [] tr.t = "HTTPError" -> OnHTTPError(tr.code, tr.text)
      [] tr.t = "URLError" -> Raise("APIError", MSG_NETWORK \o tr.text)
      [] tr.t = "KeyboardInterrupt" -> Raise("KeyboardInterrupt", <<>>)
      [] OTHER -> Raise("APIError", MSG_UNEXPECTED \o tr.text)

\* the try/except of _make_request applied to what the transport did;
\* KeyboardInterrupt is no subclass of Exception and passes every clause
\* mutant: the last clause catches everything, a user interrupt included
MakeRequestResult_BareExcept(tr) ==
    CASE tr.t = "ok" -> Return(tr.doc)
      [] tr.t = "HTTPError" -> OnHTTPError(tr.code, tr.text)
      [] tr.t = "URLError" -> Raise("APIError", MSG_NETWORK \o tr.text)
      [] tr.t = "JSONDecodeError" -> Raise("APIError", MSG_JSON \o tr.text)
      [] OTHER -> Raise("APIError", MSG_UNEXPECTED \o tr.text)

MakeRequestResult(tr) ==
    CASE tr.t = "ok" -> Return(tr.doc)
      [] tr.t = "HTTPError" -> OnHTTPError(tr.code, tr.text)
      [] tr.t = "URLError" -> Raise("APIError", MSG_NETWORK \o tr.text)
      [] tr.t = "JSONDecodeError" -> Raise("APIError", MSG_JSON \o tr.text)
      [] tr.t = "KeyboardInterrupt" -> Raise("KeyboardInterrupt", <<>>)
      [] OTHER -> Raise("APIError", MSG_UNEXPECTED \o tr.text)

----------------------------------------------------------------------------
(* The request client: one thread, NumClients instances *)

ClientInit ==
    /\ now = ClockStart
    /\ last = [i \in Instances |-> 0]
    /\ pc = "idle"
    /\ cur = 1
    /\ op = "search"
    /\ wakeAt = 0
    /\ stamps = 0
    /\ inits = <<>>
    /\ wire = NoTransport
    /\ result = NoResult

\* the clock advances at any moment (and always while a sleep is pending)
Tick ==
    /\ now < MaxTime \/ (pc = "sleeping" /\ now < wakeAt)
    /\ now' = now + 1
    /\ UNCHANGED <<last, pc, cur, op, wakeAt, stamps, inits, wire, result, nonClient>>

\* an endpoint method of instance i calls _make_request
Call(i, o) ==
    /\ pc = "idle"
    /\ Len(inits) < MaxCalls
    /\ pc' = "rate_limit"
    /\ cur' = i
    /\ op' = o
    /\ stamps' = 0
    /\ wire' = NoTransport
    /\ result' = NoResult
    /\ UNCHANGED <<now, last, wakeAt, inits, nonClient>>

\* mutant: the elapsed time is not compared, the call never sleeps
RateLimitRead_NoSleep ==
    /\ pc = "rate_limit"
    /\ pc' = "stamp"
    /\ UNCHANGED <<now, last, cur, op, wakeAt, stamps, inits, wire, result, nonClient>>

\* mutant: the call always sleeps the whole interval
RateLimitRead_FullSleep ==
    /\ pc = "rate_limit"
    /\ wakeAt' = now + RATE_LIMIT
    /\ pc' = "sleeping"
    /\ UNCHANGED <<now, last, cur, op, stamps, inits, wire, result, nonClient>>

\* _rate_limit, lines 42-44: read the clock, decide whether to sleep
RateLimitRead ==
    /\ pc = "rate_limit"
    /\ LET elapsed == now - last[cur]
       IN  IF elapsed < RATE_LIMIT
           THEN /\ wakeAt' = now + (RATE_LIMIT - elapsed)
                /\ pc' = "sleeping"
           ELSE /\ wakeAt' = wakeAt
                /\ pc' = "stamp"
    /\ UNCHANGED <<now, last, cur, op, stamps, inits, wire, result, nonClient>>

\* time.sleep returns, no earlier than requested
SleepReturn ==
    /\ pc = "sleeping"
    /\ now >= wakeAt
    /\ pc' = "stamp"
    /\ wakeAt' = 0
    /\ UNCHANGED <<now, last, cur, op, stamps, inits, wire, result, nonClient>>

\* the user interrupts the process during time.sleep: KeyboardInterrupt
\* leaves _rate_limit and _make_request before the timestamp is written
SleepInterrupt ==
    /\ pc = "sleeping"
    /\ result' = Raise("KeyboardInterrupt", <<>>)
    /\ pc' = "idle"
    /\ wakeAt' = 0
    /\ UNCHANGED <<now, last, cur, op, stamps, inits, wire, nonClient>>

\* _rate_limit, line 45: record the time of this request
RateLimitStamp ==
    /\ pc = "stamp"
    /\ last' = [last EXCEPT ![cur] = now]
    /\ stamps' = stamps + 1
    /\ inits' = Append(inits, <<cur, now>>)
    /\ pc' = "dispatched"
    /\ UNCHANGED <<now, cur, op, wakeAt, wire, result, nonClient>>

\* mutant: the timestamp is taken again when the request completes
Complete_Restamp(tr) ==
    /\ pc = "dispatched"
    /\ wire' = tr
    /\ result' = MakeRequestResult(tr)
    /\ last' = [last EXCEPT ![cur] = now]
    /\ stamps' = stamps + 1
    /\ pc' = "idle"
    /\ UNCHANGED <<now, cur, op, wakeAt, inits, nonClient>>

\* urlopen answers (or fails) and _make_request returns or raises
Complete(tr) ==
    /\ pc = "dispatched"
    /\ wire' = tr
    /\ result' = MakeRequestResult(tr)
    /\ pc' = "idle"
    /\ UNCHANGED <<now, last, cur, op, wakeAt, stamps, inits, nonClient>>

ClientNext ==
    \/ Tick
    \/ \E i \in Instances, o \in Ops : Call(i, o)
    \/ RateLimitRead
    \/ SleepReturn
    \/ SleepInterrupt
    \/ RateLimitStamp
    \/ \E tr \in Transports : Complete(tr)

----------------------------------------------------------------------------
(* Properties of the request client *)

\* positions in inits of the calls made through instance i, in call order
CallsOf(i) == {k \in 1..Len(inits) : inits[k][1] = i}

\* k and l are consecutive calls of the same instance
ConsecutiveOnInstance(k, l) ==
    /\ k < l
    /\ inits[k][1] = inits[l][1]
    /\ \A m \in CallsOf(inits[k][1]) : ~(k < m /\ m < l)

\* C1: any two consecutive calls made through one client instance, whatever
\* the operation and whether the earlier one returned or raised, have
\* initiation timestamps at least RATE_LIMIT apart.
C1_SpacingPerClient ==
    \A k, l \in 1..Len(inits) :
        ConsecutiveOnInstance(k, l) => inits[l][2] - inits[k][2] >= RATE_LIMIT

\* a second call on the same instance was held back by the sleep and was
\* initiated exactly RATE_LIMIT after the one before it
C1_Witness ==
    /\ Len(inits) >= 2
    /\ ConsecutiveOnInstance(Len(inits) - 1, Len(inits))
    /\ inits[Len(inits)][2] - inits[Len(inits) - 1][2] = RATE_LIMIT
    /\ pc = "dispatched"

\* C2: the timestamp is process-wide, so any two consecutive calls of the
\* process, also through two different instances, are initiated at least
\* RATE_LIMIT apart.
C2_SpacingAcrossClients ==
    \A k \in 1..(Len(inits) - 1) : inits[k + 1][2] - inits[k][2] >= RATE_LIMIT

\* C3: the running call has written the timestamp exactly once when the
\* request is dispatched and not at all before the wait is over; the
\* completion of the request (document, 404 sentinel or APIError) leaves
\* every instance's timestamp and the write count unchanged.
C3_StampOncePerCall ==
    /\ [](pc \in {"rate_limit", "sleeping", "stamp"} => stamps = 0)
    /\ [](pc = "dispatched" => stamps = 1 /\ last[cur] = inits[Len(inits)][2])
    /\ [][pc = "dispatched" /\ pc' = "idle"
            => last' = last /\ stamps' = 1 /\ stamps = 1]_clientVars

\* a call that raised APIError has finished later than it was initiated
C3_Witness ==
    /\ pc = "idle"
    /\ result.kind = "raise"
    /\ stamps = 1
    /\ now > last[cur]

\* value of a text of decimal digits
RECURSIVE NumeralValue(_)
NumeralValue(ds) ==
    IF ds = <<>> THEN 0
    ELSE 10 * NumeralValue(SubSeq(ds, 1, Len(ds) - 1))
         + (CHOOSE d \in 0..9 : Digit[d + 1] = ds[Len(ds)])

IsNumeral(ds) ==
    /\ ds # <<>>
    /\ \A k \in 1..Len(ds) : \E d \in 0..9 : Digit[d + 1] = ds[k]
    /\ Len(ds) > 1 => ds[1] # "0"

RECURSIVE NumDigits(_)
NumDigits(n) == IF n < 10 THEN 1 ELSE 1 + NumDigits(n \div 10)

\* some part of the text reads as the decimal numeral of n
MentionsNumber(text, n) ==
    \E p \in 1..(Len(text) - NumDigits(n) + 1) :
        LET part == SubSeq(text, p, p + NumDigits(n) - 1)
        IN  IsNumeral(part) /\ NumeralValue(part) = n

\* the wait _rate_limit has just asked time.sleep for, 0 if it did not sleep
RequestedWait == IF pc' = "sleeping" THEN wakeAt' - now ELSE 0

Interrupted ==
    pc = "idle" /\ result.kind = "raise" /\ result.exc = "KeyboardInterrupt"

\* C26: when _rate_limit has read the clock, the wait it asks for is
\* max(0, RATE_LIMIT - elapsed) with elapsed the time since the instance's
\* last initiation: at most RATE_LIMIT, zero once RATE_LIMIT has elapsed, zero
\* for the first call of an instance (timestamp 0); and every call that has
\* entered _rate_limit reaches dispatch unless the user interrupts its sleep.
C26_WaitIsBounded ==
    /\ [][(pc = "rate_limit" /\ pc' # "rate_limit")
            => LET elapsed == now - last[cur]
               IN  /\ RequestedWait
                        = (IF RATE_LIMIT - elapsed > 0
                           THEN RATE_LIMIT - elapsed ELSE 0)
                   /\ RequestedWait <= RATE_LIMIT
                   /\ elapsed >= RATE_LIMIT => RequestedWait = 0
                   /\ last[cur] = 0 => RequestedWait = 0
                   /\ RequestedWait = 0 <=> pc' = "stamp"]_vars
    /\ (pc = "rate_limit") ~> (pc = "dispatched" \/ Interrupted)

\* a call is held back for the whole interval
C26_Witness ==
    /\ pc = "sleeping"
    /\ Len(inits) >= 1
    /\ wakeAt = last[cur] + RATE_LIMIT
    /\ wakeAt > now

Finished == pc = "idle" /\ wire.t # "none"

\* C9: when the request of any operation is answered with status 404,
\* _make_request returns the sentinel document and raises nothing.
C9_NotFoundSentinel ==
    (Finished /\ wire.t = "HTTPError" /\ wire.code = 404)
        => /\ result.kind = "return"
           /\ result.doc = [error |-> "not_found", message |-> "Entity not found"]

\* a lookup was answered 404 and has returned
C9_Witness ==
    /\ Finished
    /\ op = "lookup"
    /\ wire.t = "HTTPError"
    /\ wire.code = 404
    /\ result.kind = "return"

\* C10: for every HTTP error status other than 404, _make_request raises
\* APIError with a message that contains the status code in decimal.
C10_HttpErrorNamesStatus ==
    (Finished /\ wire.t = "HTTPError" /\ wire.code # 404)
        => /\ result.kind = "raise"
           /\ result.exc = "APIError"
           /\ MentionsNumber(result.msg, wire.code)

\* a 503, or a status without a branch of its own, has raised
C10_Witness ==
    /\ Finished
    /\ wire.t = "HTTPError"
    /\ wire.code \in {503, 429}
    /\ result.kind = "raise"
    /\ Contains(result.msg, IF wire.code = 503 THEN <<"5", "0", "3">>
                                               ELSE <<"4", "2", "9">>)

\* C11: a network failure, a body that is not JSON and any other exception
\* of the dispatched request leave _make_request as APIError and as no other
\* exception type; the message contains the cause text, and for a malformed
\* body it names the JSON parse failure.
C11_OtherFailuresAreAPIError ==
    (Finished /\ wire.t \in {"URLError", "JSONDecodeError", "Exception"})
        => /\ result.kind = "raise"
           /\ result.exc = "APIError"
           /\ Contains(result.msg, wire.text)
           /\ wire.t = "JSONDecodeError"
                => Contains(result.msg, <<"J", "S", "O", "N">>)

\* a browse request was answered with a body that json.loads rejected
C11_Witness ==
    /\ Finished
    /\ op = "browse"
    /\ wire.t = "JSONDecodeError"
    /\ result.exc = "APIError"

----------------------------------------------------------------------------
(* is_valid_mbid (src/main.py): MBID_PATTERN matched as re.match does *)

\* the character class [0-9a-f]
HexClass ==
    {"0", "1", "2", "3", "4", "5", "6", "7", "8", "9",
     "a", "b", "c", "d", "e", "f"}

UPPER ==
    <<"A", "B", "C", "D", "E", "F", "G", "H", "I", "J", "K", "L", "M",
      "N", "O", "P", "Q", "R", "S", "T", "U", "V", "W", "X", "Y", "Z">>

LOWER ==
    <<"a", "b", "c", "d", "e", "f", "g", "h", "i", "j", "k", "l", "m",
      "n", "o", "p", "q", "r", "s", "t", "u", "v", "w", "x", "y", "z">>

\* the lower-case form of a character (re.IGNORECASE folds case)
ToLower(c) ==
    IF \E k \in 1..Len(UPPER) : UPPER[k] = c
    THEN LOWER[CHOOSE k \in 1..Len(UPPER) : UPPER[k] = c]
    ELSE c

\* mutant: the pattern is compiled without re.IGNORECASE
MatchesHex_CaseSensitive(c) == c \in HexClass

\* [0-9a-f] under re.IGNORECASE
MatchesHex(c) == ToLower(c) \in HexClass

\* the numbers of hex digits in {8}-{4}-{4}-{4}-{12}
MBID_GROUPS == <<8, 4, 4, 4, 12>>

\* [0-9a-f]{n} at position pos: the position after it, 0 when it fails
MatchHexRun(s, pos, n) ==
    IF /\ pos + n - 1 <= Len(s)
       /\ \A k \in pos..(pos + n - 1) : MatchesHex(s[k])
    THEN pos + n
    ELSE 0

\* groups g.. of the pattern, separated by "-", from position pos
RECURSIVE MatchGroups(_, _, _)
MatchGroups(s, pos, g) ==
    LET after == MatchHexRun(s, pos, MBID_GROUPS[g])
    IN  IF after = 0 THEN 0
        ELSE IF g = Len(MBID_GROUPS) THEN after
        ELSE IF after <= Len(s) /\ s[after] = "-"
             THEN MatchGroups(s, after + 1, g + 1)
             ELSE 0

\* "$" without re.MULTILINE: at the end of the text, or just before a
\* newline that is the last character
EndAnchor(s, pos) ==
    \/ pos = Len(s) + 1
    \/ pos = Len(s) /\ s[pos] = "\n"

\* whether MBID_PATTERN.match(s) finds a match
PatternMatches(s) ==
    LET after == MatchGroups(s, 1, 1)
    IN  after # 0 /\ EndAnchor(s, after)

\* Python values: a type name and a payload
PyStr(s) == [type |-> "str", val |-> s]
PyNone == [type |-> "NoneType", val |-> <<>>]
PyInt(n) == [type |-> "int", val |-> <<n>>]
PyBytes(s) == [type |-> "bytes", val |-> s]

\* bool(v)
Truthy(v) ==
    CASE v.type = "NoneType" -> FALSE
      [] v.type = "int" -> v.val # <<0>>
      [] OTHER -> v.val # <<>>

is_valid_mbid(v) ==
    IF ~Truthy(v) \/ v.type # "str" THEN FALSE
    ELSE PatternMatches(v.val)

----------------------------------------------------------------------------
(* Texts used as inputs *)

MBID_LOWER ==
    <<"a", "7", "4", "b", "1", "b", "7", "f", "-", "7", "1", "a", "5", "-",
      "4", "0", "1", "1", "-", "9", "4", "4", "1", "-", "d", "0", "b", "5",
      "e", "4", "1", "2", "2", "7", "1", "1">>

MBID_UPPER ==
    <<"A", "7", "4", "B", "1", "B", "7", "F", "-", "7", "1", "A", "5", "-",
      "4", "0", "1", "1", "-", "9", "4", "4", "1", "-", "D", "0", "B", "5",
      "E", "4", "1", "2", "2", "7", "1", "1">>

NAME_RADIOHEAD ==
    <<"R", "a", "d", "i", "o", "h", "e", "a", "d">>

NAME_OK_COMPUTER ==
    <<"O", "K", " ", "C", "o", "m", "p", "u", "t", "e", "r">>

\* n copies of character c
Fill(c, n) == [k \in 1..n |-> c]

\* an identifier whose hex digits are all c
UniformMbid(c) ==
    Fill(c, 8) \o <<"-">> \o Fill(c, 4) \o <<"-">> \o Fill(c, 4) \o <<"-">>
    \o Fill(c, 4) \o <<"-">> \o Fill(c, 12)

FillChars == {"0", "9", "a", "f", "A", "F"}
StrayChars == {"g", "G", "-", "0", "\n", " "}
EdgeChars == {"\n", " ", "0", "-"}

WellFormed == {MBID_LOWER, MBID_UPPER} \cup {UniformMbid(c) : c \in FillChars}

\* well-formed identifiers and their near misses
MbidTexts ==
    WellFormed
    \cup {[s EXCEPT ![p] = c] : s \in WellFormed, p \in 1..36, c \in StrayChars}
    \cup {s \o <<c>> : s \in WellFormed, c \in EdgeChars}
    \cup {<<c>> \o s : s \in WellFormed, c \in EdgeChars}
    \cup {s \o <<"\n", "\n">> : s \in WellFormed}
    \cup {SubSeq(s, 1, n) : s \in WellFormed, n \in {8, 35}}
    \cup {SubSeq(s, 1, 23) \o SubSeq(s, 25, 36) : s \in WellFormed}
    \cup {<<>>, <<"\n">>, NAME_RADIOHEAD, NAME_OK_COMPUTER}

MbidArgs ==
    {PyStr(s) : s \in MbidTexts}
    \cup {PyNone, PyInt(0), PyInt(7), PyBytes(<<>>)}
    \cup {PyBytes(s) : s \in {MBID_LOWER}}

----------------------------------------------------------------------------
(* is_valid_mbid applied to one argument *)

MbidInit ==
    /\ mpc = "idle"
    /\ arg = PyNone
    /\ valid = FALSE

\* a caller evaluates is_valid_mbid(v)
CheckMbid(v) ==
    /\ mpc = "idle"
    /\ arg' = v
    /\ valid' = is_valid_mbid(v)
    /\ mpc' = "done"
    /\ UNCHANGED nonMbid

\* the next evaluation may start
MbidReset ==
    /\ mpc = "done"
    /\ mpc' = "idle"
    /\ arg' = PyNone
    /\ valid' = FALSE
    /\ UNCHANGED nonMbid

MbidNext ==
    \/ \E v \in MbidArgs : CheckMbid(v)
    \/ MbidReset

----------------------------------------------------------------------------
(* Properties of is_valid_mbid *)

HexDigitsEitherCase ==
    {"0", "1", "2", "3", "4", "5", "6", "7", "8", "9",
     "a", "b", "c", "d", "e", "f", "A", "B", "C", "D", "E", "F"}

\* 36 characters: hyphens at 9, 14, 19 and 24, hex digits everywhere else
HasMbidShape(s) ==
    /\ Len(s) = 36
    /\ \A k \in 1..36 :
        IF k \in {9, 14, 19, 24} THEN s[k] = "-"
        ELSE s[k] \in HexDigitsEitherCase

\* C6: is_valid_mbid returns True exactly for the texts of the 8-4-4-4-12
\* shape and False for every other argument (empty, None, not a text, or an
\* identifier with an extra character before or after it).
C6_ValidExactlyForShape ==
    mpc = "done" => (valid <=> (arg.type = "str" /\ HasMbidShape(arg.val)))

----------------------------------------------------------------------------
(* String literals of src/main.py *)

Q_RELEASE ==
    <<"r", "e", "l", "e", "a", "s", "e", ":", "\"">>

Q_AND_ARTIST ==
    <<"\"", " ", "A", "N", "D", " ", "a", "r", "t", "i", "s", "t", ":", "\"">>

Q_CLOSE ==
    <<"\"">>

ERR_ARTIST ==
    <<"A", "r", "t", "i", "s", "t", " ", "'">>

ERR_RELEASE ==
    <<"R", "e", "l", "e", "a", "s", "e", " ", "'">>

ERR_BY ==
    <<"'", " ", "b", "y", " ", "'">>

ERR_NOT_FOUND ==
    <<"'", " ", "n", "o", "t", " ", "f", "o", "u", "n", "d">>

KEY_ERROR_ID ==
    <<"'", "i", "d", "'">>

----------------------------------------------------------------------------
(* The identifier resolver (src/main.py) *)

ID_FIRST == MBID_LOWER
ID_SECOND == UniformMbid("9")

\* the key of the typed result list in a search document
ListKey(kind) == IF kind = "artist" THEN "artists" ELSE "releases"

\* result lists a search document can carry
SearchLists ==
    {<<>>,
     <<[id |-> ID_FIRST, name |-> NAME_RADIOHEAD]>>,
     <<[id |-> ID_SECOND], [id |-> ID_FIRST]>>,
     <<[name |-> NAME_RADIOHEAD]>>}

SearchBodies(kind) == {[k \in {ListKey(kind)} |-> l] : l \in SearchLists}

\* where inside _make_request a user interrupt can arrive
PHASE_SLEEP == <<"s", "l", "e", "e", "p">>
PHASE_URLOPEN == <<"u", "r", "l", "o", "p", "e", "n">>
InterruptTransports ==
    {Transport("KeyboardInterrupt", 0, ph, <<>>) :
        ph \in {PHASE_SLEEP, PHASE_URLOPEN}}

\* what the transport can do with the resolver's search request
SearchTransports(kind) ==
    {Transport("ok", 200, <<>>, d) : d \in SearchBodies(kind)}
    \cup {Transport("HTTPError", c, <<"N", "o">>, <<>>) : c \in {404, 503}}
    \cup {Transport("URLError", 0, <<"D", "o", "w", "n">>, <<>>)}
    \cup InterruptTransports

Queries ==
    {MBID_LOWER, MBID_UPPER, UniformMbid("F"),
     MBID_LOWER \o <<"\n">>, SubSeq(MBID_LOWER, 1, 35), <<" ">> \o MBID_LOWER,
     <<>>, NAME_RADIOHEAD, NAME_OK_COMPUTER}

ArtistArgs == {PyNone, PyStr(<<>>), PyStr(NAME_RADIOHEAD)}

NoSearch == [method |-> "", query |-> <<>>, limit |-> 0]

\* mutant: title and artist are joined by a blank
SearchText_Concatenated(q, a) ==
    IF Truthy(a) THEN q \o <<" ">> \o a.val ELSE q

\* resolve_release_mbid, lines 85-87: the text handed to search_release
SearchText(q, a) ==
    IF Truthy(a)
    THEN Q_RELEASE \o q \o Q_AND_ARTIST \o a.val \o Q_CLOSE
    ELSE q

\* mutant: the release message never names the artist
NotFoundError_NoArtist(kind, q, a) ==
    IF kind = "artist"
    THEN Raise("ValueError", ERR_ARTIST \o q \o ERR_NOT_FOUND)
    ELSE Raise("ValueError", ERR_RELEASE \o q \o ERR_NOT_FOUND)

\* the ValueError of lines 59 and 93-96
NotFoundError(kind, q, a) ==
    IF kind = "artist"
    THEN Raise("ValueError", ERR_ARTIST \o q \o ERR_NOT_FOUND)
    ELSE IF Truthy(a)
         THEN Raise("ValueError",
                    ERR_RELEASE \o q \o ERR_BY \o a.val \o ERR_NOT_FOUND)
         ELSE Raise("ValueError", ERR_RELEASE \o q \o ERR_NOT_FOUND)

\* mutant: a document with an 'error' key is a service failure
FromSearchDocument_SentinelFails(kind, q, a, doc) ==
    LET list == Get(doc, ListKey(kind), <<>>)
    IN  IF "error" \in DOMAIN doc THEN Raise("APIError", ERR_NOT_FOUND)
        ELSE IF list = <<>> THEN NotFoundError(kind, q, a)
        ELSE IF "id" \in DOMAIN list[1] THEN Return(list[1].id)
        ELSE Raise("KeyError", KEY_ERROR_ID)

\* lines 56-61 and 90-98: from the search document to the resolver's result
FromSearchDocument(kind, q, a, doc) ==
    LET list == Get(doc, ListKey(kind), <<>>)
    IN  IF list = <<>> THEN NotFoundError(kind, q, a)
        ELSE IF "id" \in DOMAIN list[1] THEN Return(list[1].id)
        ELSE Raise("KeyError", KEY_ERROR_ID)

ResolverInit ==
    /\ rpc = "idle"
    /\ rkind = "artist"
    /\ query = <<>>
    /\ artist = PyNone
    /\ calls = 0
    /\ searchArg = NoSearch
    /\ resp = NoResult
    /\ rout = NoResult

\* resolve_artist_mbid(api, q) or resolve_release_mbid(api, q, a) up to the
\* return of the identifier or the start of the search call
ResolveBegin(kind, q, a) ==
    /\ rpc = "idle"
    /\ kind = "artist" => a = PyNone
    /\ rkind' = kind
    /\ query' = q
    /\ artist' = a
    /\ IF is_valid_mbid(PyStr(q))
       THEN /\ rpc' = "done"
            /\ rout' = Return(q)
            /\ UNCHANGED <<calls, searchArg>>
       ELSE /\ rpc' = "searching"
            /\ calls' = calls + 1
            /\ searchArg' =
                   IF kind = "artist"
                   THEN [method |-> "search_artist", query |-> q, limit |-> 1]
                   ELSE [method |-> "search_release",
                         query |-> SearchText(q, a), limit |-> 1]
            /\ UNCHANGED rout
    /\ UNCHANGED resp

\* the resolver called on its own
Resolve(kind, q, a) ==
    /\ ResolveBegin(kind, q, a)
    /\ UNCHANGED nonResolver

\* the search call returns a document or raises, and the resolver finishes
SearchEnd(tr) ==
    /\ rpc = "searching"
    /\ tr \in SearchTransports(rkind)
    /\ resp' = MakeRequestResult(tr)
    /\ rout' = IF resp'.kind = "raise" THEN resp'
               ELSE FromSearchDocument(rkind, query, artist, resp'.doc)
    /\ rpc' = "done"
    /\ UNCHANGED <<rkind, query, artist, calls, searchArg>>

\* the search call of a resolver that was called on its own
SearchAnswer(tr) ==
    /\ SearchEnd(tr)
    /\ UNCHANGED nonResolver

ResolverNext ==
    \/ \E kind \in {"artist", "release"}, q \in Queries, a \in ArtistArgs :
           Resolve(kind, q, a)
    \/ \E tr \in SearchTransports("artist") \cup SearchTransports("release") :
           SearchAnswer(tr)

----------------------------------------------------------------------------
(* Properties of the resolver *)

\* C4: a query of the 8-4-4-4-12 shape, in either case, is returned unchanged
\* by both resolvers (with or without an artist) and no call is made on the
\* client.
C4_MbidReturnedUnchanged ==
    (rpc # "idle" /\ HasMbidShape(query))
        => /\ rpc = "done"
           /\ rout.kind = "return"
           /\ rout.doc = query
           /\ calls = 0
           /\ searchArg = NoSearch

\* an upper-case identifier went through resolve_release_mbid with an artist
C4_Witness ==
    /\ rpc = "done"
    /\ rkind = "release"
    /\ query = MBID_UPPER
    /\ Truthy(artist)
    /\ rout.kind = "return"
    /\ rout.doc = MBID_UPPER

\* C5: for a query that has not the identifier shape the resolver makes
\* exactly one search call; when the search returned a document it fails
\* with the 'not found' ValueError if the typed list is empty and returns
\* the first element's 'id' if that element carries one.
C5_NonShapeSearchesOnce ==
    (rpc = "done" /\ ~HasMbidShape(query))
        => /\ calls = 1
           /\ resp.kind = "return" =>
               LET list == Get(resp.doc, ListKey(rkind), <<>>)
               IN  /\ list = <<>> =>
                       /\ rout.kind = "raise"
                       /\ rout.exc = "ValueError"
                       /\ Contains(rout.msg, <<"n", "o", "t", " ", "f", "o", "u", "n", "d">>)
                   /\ (list # <<>> /\ "id" \in DOMAIN list[1]) =>
                       /\ rout.kind = "return"
                       /\ rout.doc = list[1].id

ArtistSupplied == artist.type = "str" /\ artist.val # <<>>

\* C7: the text resolve_release_mbid passes to search_release is
\* release:"<query>" AND artist:"<artist>" when a non-empty artist was given
\* and the query itself when the artist is None or empty.
C7_ReleaseSearchText ==
    (rkind = "release" /\ calls = 1)
        => /\ searchArg.method = "search_release"
           /\ IF ArtistSupplied
              THEN /\ searchArg.query =
                        <<"r", "e", "l", "e", "a", "s", "e", ":", "\"">>
                        \o query
                        \o <<"\"", " ", "A", "N", "D", " ",
                             "a", "r", "t", "i", "s", "t", ":", "\"">>
                        \o artist.val \o <<"\"">>
                   /\ Contains(searchArg.query, query)
                   /\ Contains(searchArg.query, artist.val)
              ELSE searchArg.query = query

\* the search for "OK Computer" by "Radiohead" is under way
C7_Witness ==
    /\ rpc = "searching"
    /\ rkind = "release"
    /\ query = NAME_OK_COMPUTER
    /\ artist = PyStr(NAME_RADIOHEAD)
    /\ Contains(searchArg.query, <<" ", "A", "N", "D", " ">>)

\* C8: when the result list is empty the resolver raises the 'not found'
\* ValueError; its message contains the query, and for a release it names
\* the artist exactly when a non-empty artist was given.
C8_NotFoundNamesQuery ==
    (rpc = "done" /\ resp.kind = "return"
        /\ Get(resp.doc, ListKey(rkind), <<>>) = <<>>)
        => /\ rout.kind = "raise"
           /\ rout.exc = "ValueError"
           /\ Contains(rout.msg, <<"'">> \o query \o <<"'">>)
           /\ Contains(rout.msg, <<" ", "b", "y", " ">>)
                <=> (rkind = "release" /\ ArtistSupplied)
           /\ (rkind = "release" /\ ArtistSupplied)
                => Contains(rout.msg, <<"'">> \o artist.val \o <<"'">>)

\* a release search with an artist came back empty
C8_Witness ==
    /\ rpc = "done"
    /\ rkind = "release"
    /\ ArtistSupplied
    /\ resp.kind = "return"
    /\ Get(resp.doc, "releases", <<"x">>) = <<>>
    /\ rout.exc = "ValueError"

----------------------------------------------------------------------------
(* Building the request: the endpoint methods and _make_request (src/api.py) *)

E_ARTIST ==
    <<"a", "r", "t", "i", "s", "t">>

E_RELEASE ==
    <<"r", "e", "l", "e", "a", "s", "e">>

E_RECORDING ==
    <<"r", "e", "c", "o", "r", "d", "i", "n", "g">>

E_LABEL ==
    <<"l", "a", "b", "e", "l">>

TAG_PREFIX ==
    <<"t", "a", "g", ":">>

FMT_JSON ==
    <<"j", "s", "o", "n">>

FMT_XML ==
    <<"x", "m", "l">>

INC_TAGS ==
    <<"t", "a", "g", "s">>

TYPE_ALBUM ==
    <<"a", "l", "b", "u", "m">>

STATUS_OFFICIAL ==
    <<"o", "f", "f", "i", "c", "i", "a", "l">>

TAG_JAZZ ==
    <<"j", "a", "z", "z">>

SLASH == <<"/">>

USER_AGENT == "MusicBrainzCLI/1.0.0 (educational-project)"

\* the dictionary d after d[k] = v
DictSet(d, k, v) ==
    [x \in (DOMAIN d) \cup {k} |-> IF x = k THEN v ELSE d[x]]

\* {}
EmptyDict == [x \in {} |-> PyNone]

Min(a, b) == IF a < b THEN a ELSE b
Max(a, b) == IF a > b THEN a ELSE b

\* mutant: the limit is clamped from below as well
ClampLimit_AtLeastOne(limit) == Max(1, Min(limit, 100))

\* min(limit, 100)
ClampLimit(limit) == Min(limit, 100)

\* what an endpoint method hands to _make_request
ApiCall(endpoint, params) == [endpoint |-> endpoint, params |-> params]

\* search_artist, search_release, search_recording, search_label
SearchCall(entity, q, limit) ==
    ApiCall(entity, [query |-> PyStr(q), limit |-> PyInt(ClampLimit(limit))])

search_artist(q, limit) == SearchCall(E_ARTIST, q, limit)
search_release(q, limit) == SearchCall(E_RELEASE, q, limit)
search_recording(q, limit) == SearchCall(E_RECORDING, q, limit)
search_label(q, limit) == SearchCall(E_LABEL, q, limit)

search_by_tag(entity, tag, limit) ==
    ApiCall(entity, [query |-> PyStr(TAG_PREFIX \o tag),
                     limit |-> PyInt(ClampLimit(limit))])

\* lookup_artist, lookup_release, lookup_recording, lookup_label
LookupCall(entity, mbid, inc) ==
    ApiCall(entity \o SLASH \o mbid,
            IF Truthy(inc) THEN DictSet(EmptyDict, "inc", inc) ELSE EmptyDict)

lookup_artist(mbid, inc) == LookupCall(E_ARTIST, mbid, inc)
lookup_release(mbid, inc) == LookupCall(E_RELEASE, mbid, inc)
lookup_recording(mbid, inc) == LookupCall(E_RECORDING, mbid, inc)
lookup_label(mbid, inc) == LookupCall(E_LABEL, mbid, inc)

\* mutant: the status filter is dropped
browse_releases_by_artist_NoStatus(mbid, limit, rtype, status) ==
    LET base == [artist |-> PyStr(mbid), limit |-> PyInt(ClampLimit(limit))]
        typed == IF Truthy(rtype) THEN DictSet(base, "type", rtype) ELSE base
    IN  ApiCall(E_RELEASE, typed)

browse_releases_by_artist(mbid, limit, rtype, status) ==
    LET base == [artist |-> PyStr(mbid), limit |-> PyInt(ClampLimit(limit))]
        typed == IF Truthy(rtype) THEN DictSet(base, "type", rtype) ELSE base
        both == IF Truthy(status) THEN DictSet(typed, "status", status)
                ELSE typed
    IN  ApiCall(E_RELEASE, both)

browse_releases_by_label(mbid, limit, rtype) ==
    LET base == [label |-> PyStr(mbid), limit |-> PyInt(ClampLimit(limit))]
    IN  ApiCall(E_RELEASE,
                IF Truthy(rtype) THEN DictSet(base, "type", rtype) ELSE base)

\* mutant: fmt is set only when the caller passed none
BuildRequest_KeepCallerFmt(call) ==
    [endpoint |-> call.endpoint,
     params |-> IF "fmt" \in DOMAIN call.params THEN call.params
                ELSE DictSet(call.params, "fmt", PyStr(FMT_JSON)),
     headers |-> ("User-Agent" :> USER_AGENT) @@ ("Accept" :> "application/json")]

\* _make_request, lines 64-74: the parameters that are url-encoded into the
\* query string, and the headers added to the Request
BuildRequest(call) ==
    [endpoint |-> call.endpoint,
     params |-> DictSet(call.params, "fmt", PyStr(FMT_JSON)),
     headers |-> ("User-Agent" :> USER_AGENT) @@ ("Accept" :> "application/json")]

\* cmd_artist_releases, lines 227-232: the browse call made from the parsed
\* arguments (args.limit, args.type, args.status)
ArtistReleasesBrowse(mbid, limit, rtype, status) ==
    browse_releases_by_artist(mbid, limit,
                              IF Truthy(rtype) THEN rtype ELSE PyNone,
                              IF Truthy(status) THEN status ELSE PyNone)

Limits == {-3, 0, 1, 25, 99, 100, 101, 250}
IncArgs == {PyNone, PyStr(<<>>), PyStr(INC_TAGS)}
TypeArgs == {PyNone, PyStr(<<>>), PyStr(TYPE_ALBUM)}
StatusArgs == {PyNone, PyStr(<<>>), PyStr(STATUS_OFFICIAL)}
Entities == {E_ARTIST, E_RELEASE, E_RECORDING, E_LABEL}
RequestTexts == {NAME_RADIOHEAD, <<>>}

\* parameter dictionaries a caller of _make_request may pass
DirectParams ==
    {EmptyDict,
     [fmt |-> PyStr(FMT_XML)],
     [fmt |-> PyStr(FMT_XML), query |-> PyStr(NAME_RADIOHEAD)],
     [fmt |-> PyStr(FMT_JSON), limit |-> PyInt(250)]}

\* what the caller passed: the method, its arguments, and the call made
Caller(method, text, limit, inc, rtype, status, call) ==
    [method |-> method, text |-> text, limit |-> limit, inc |-> inc,
     rtype |-> rtype, status |-> status, call |-> call]

NoCaller == Caller("", <<>>, 0, PyNone, PyNone, PyNone, ApiCall(<<>>, EmptyDict))
NoRequest == [endpoint |-> <<>>, params |-> EmptyDict, headers |-> EmptyDict]

RequestInit ==
    /\ qpc = "idle"
    /\ qcall = NoCaller
    /\ qreq = NoRequest

\* the caller's call reaches _make_request, which builds the Request
Issue(c) ==
    /\ qcall' = c
    /\ qreq' = BuildRequest(c.call)
    /\ qpc' = "built"
    /\ UNCHANGED nonRequest

CallSearch(entity, q, limit) ==
    /\ qpc = "idle"
    /\ Issue(Caller("search", q, limit, PyNone, PyNone, PyNone,
                    SearchCall(entity, q, limit)))

CallSearchByTag(entity, tag, limit) ==
    /\ qpc = "idle"
    /\ Issue(Caller("search_by_tag", tag, limit, PyNone, PyNone, PyNone,
                    search_by_tag(entity, tag, limit)))

CallLookup(entity, mbid, inc) ==
    /\ qpc = "idle"
    /\ Issue(Caller("lookup", mbid, 0, inc, PyNone, PyNone,
                    LookupCall(entity, mbid, inc)))

CallBrowseByArtist(mbid, limit, rtype, status) ==
    /\ qpc = "idle"
    /\ Issue(Caller("browse_releases_by_artist", mbid, limit, PyNone, rtype,
                    status, browse_releases_by_artist(mbid, limit, rtype, status)))

CallBrowseByLabel(mbid, limit, rtype) ==
    /\ qpc = "idle"
    /\ Issue(Caller("browse_releases_by_label", mbid, limit, PyNone, rtype,
                    PyNone, browse_releases_by_label(mbid, limit, rtype)))

\* artist-releases with --limit, --type and --status as parsed
CallArtistReleases(mbid, limit, rtype, status) ==
    /\ qpc = "idle"
    /\ Issue(Caller("cmd_artist_releases", mbid, limit, PyNone, rtype, status,
                    ArtistReleasesBrowse(mbid, limit, rtype, status)))

\* _make_request called with a parameter dictionary of the caller's own
CallMakeRequest(endpoint, params) ==
    /\ qpc = "idle"
    /\ Issue(Caller("_make_request", endpoint, 0, PyNone, PyNone, PyNone,
                    ApiCall(endpoint, params)))

\* the next call may be made
RequestReset ==
    /\ qpc = "built"
    /\ qpc' = "idle"
    /\ qcall' = NoCaller
    /\ qreq' = NoRequest
    /\ UNCHANGED nonRequest

RequestNext ==
    \/ \E e \in Entities, q \in RequestTexts, l \in Limits : CallSearch(e, q, l)
    \/ \E e \in {E_ARTIST, E_RELEASE}, l \in Limits :
           CallSearchByTag(e, TAG_JAZZ, l)
    \/ \E e \in Entities, i \in IncArgs : CallLookup(e, MBID_LOWER, i)
    \/ \E l \in Limits, t \in TypeArgs, st \in StatusArgs :
           CallBrowseByArtist(MBID_LOWER, l, t, st)
    \/ \E l \in Limits, t \in TypeArgs : CallBrowseByLabel(MBID_LOWER, l, t)
    \/ \E l \in Limits, t \in TypeArgs, st \in StatusArgs :
           CallArtistReleases(MBID_LOWER, l, t, st)
    \/ \E e \in Entities, p \in DirectParams : CallMakeRequest(e, p)
    \/ RequestReset

----------------------------------------------------------------------------
(* Properties of the request *)

Provided(v) == v.type = "str" /\ v.val # <<>>

\* C18: every request built carries fmt=json and the fixed User-Agent and
\* Accept headers, whatever the operation and the caller's parameters; a fmt
\* passed by the caller is replaced, and the caller's other parameters stay.
C18_FmtJsonAndHeaders ==
    qpc = "built"
        => /\ "fmt" \in DOMAIN qreq.params
           /\ qreq.params["fmt"] = [type |-> "str", val |-> <<"j", "s", "o", "n">>]
           /\ DOMAIN qreq.headers = {"User-Agent", "Accept"}
           /\ qreq.headers["User-Agent"]
                = "MusicBrainzCLI/1.0.0 (educational-project)"
           /\ qreq.headers["Accept"] = "application/json"
           /\ DOMAIN qreq.params = (DOMAIN qcall.call.params) \cup {"fmt"}
           /\ \A k \in (DOMAIN qcall.call.params) \ {"fmt"} :
                  qreq.params[k] = qcall.call.params[k]

\* the caller passed fmt=xml and the request was built
C18_Witness ==
    /\ qpc = "built"
    /\ qcall.method = "_make_request"
    /\ "fmt" \in DOMAIN qcall.call.params
    /\ qcall.call.params["fmt"] = PyStr(FMT_XML)
    /\ qreq.params["fmt"] = PyStr(FMT_JSON)

LimitedMethods ==
    {"search", "search_by_tag", "browse_releases_by_artist",
     "browse_releases_by_label", "cmd_artist_releases"}

\* C19: for every search and browse operation and every integer limit the
\* limit sent is min(limit, 100): 100 for a larger limit, the limit itself
\* otherwise, zero and negative values included.
C19_LimitClamped ==
    (qpc = "built" /\ qcall.method \in LimitedMethods)
        => /\ "limit" \in DOMAIN qreq.params
           /\ qreq.params["limit"].type = "int"
           /\ qreq.params["limit"].val
                = <<IF qcall.limit > 100 THEN 100 ELSE qcall.limit>>
           /\ qreq.params["limit"].val[1] <= 100

\* a browse by label asked for 250 and one asked for a negative limit
C19_Witness ==
    /\ qpc = "built"
    /\ qcall.method = "browse_releases_by_label"
    /\ qcall.limit \in {250, -3}
    /\ qreq.params["limit"].val \in {<<100>>, <<-3>>}

\* C20: 'type', 'status' and 'inc' are parameters of the request exactly when
\* the caller gave a non-empty value, and then with that value; this holds
\* for the endpoint methods and for artist-releases with --type / --status.
C20_FiltersOnlyWhenProvided ==
    (qpc = "built" /\ qcall.method # "_make_request")
        => /\ "type" \in DOMAIN qreq.params <=> Provided(qcall.rtype)
           /\ "status" \in DOMAIN qreq.params <=> Provided(qcall.status)
           /\ "inc" \in DOMAIN qreq.params <=> Provided(qcall.inc)
           /\ Provided(qcall.rtype) => qreq.params["type"] = qcall.rtype
           /\ Provided(qcall.status) => qreq.params["status"] = qcall.status
           /\ Provided(qcall.inc) => qreq.params["inc"] = qcall.inc

\* artist-releases was run with --status official and without --type
C20_Witness ==
    /\ qpc = "built"
    /\ qcall.method = "cmd_artist_releases"
    /\ qcall.status = PyStr(STATUS_OFFICIAL)
    /\ qcall.rtype = PyNone
    /\ "status" \in DOMAIN qreq.params
    /\ "type" \notin DOMAIN qreq.params

----------------------------------------------------------------------------
(* The formatting functions format_duration and format_list (src/main.py) *)

ZERO_DURATION ==
    <<"0", ":", "0", "0">>

NONE_TEXT ==
    <<"N", "o", "n", "e">>

LIST_SEP ==
    <<",", " ">>

ELLIPSIS ==
    <<",", " ", ".", ".", ".">>

TAG_POP ==
    <<"p", "o", "p">>

TAG_ROCK ==
    <<"r", "o", "c", "k">>

\* f"{n:02d}" for a natural number n: at least two digits, padded with zeros
Pad2(n) == IF n < 10 THEN <<"0">> \o IntToStr(n) ELSE IntToStr(n)

\* mutant: the minutes wrap at the hour
format_duration_WrapMinutes(ms) ==
    IF ~Truthy(ms) \/ ms.val[1] < 0 THEN ZERO_DURATION
    ELSE LET seconds == ms.val[1] \div 1000
         IN  IntToStr((seconds \div 60) % 60) \o <<":">> \o Pad2(seconds % 60)

\* format_duration(milliseconds), for None or an int
format_duration(ms) ==
    IF ~Truthy(ms) \/ ms.val[1] < 0 THEN ZERO_DURATION
    ELSE LET seconds == ms.val[1] \div 1000
             minutes == seconds \div 60
         IN  IntToStr(minutes) \o <<":">> \o Pad2(seconds % 60)

\* ", ".join(str(item) for item in items), for a list of texts
RECURSIVE Join(_)
Join(items) ==
    IF items = <<>> THEN <<>>
    ELSE IF Len(items) = 1 THEN items[1]
    ELSE Join(SubSeq(items, 1, Len(items) - 1)) \o LIST_SEP \o items[Len(items)]

\* items[:n]
Slice(items, n) ==
    IF n >= 0 THEN SubSeq(items, 1, Min(n, Len(items)))
    ELSE SubSeq(items, 1, Max(0, Len(items) + n))

\* mutant: a list of exactly max_items items is truncated too
format_list_OffByOne(items, max_items) ==
    IF items = <<>> THEN NONE_TEXT
    ELSE IF Len(items) < max_items THEN Join(items)
    ELSE Join(Slice(items, max_items)) \o ELLIPSIS

\* format_list(items, max_items)
format_list(items, max_items) ==
    IF items = <<>> THEN NONE_TEXT
    ELSE IF Len(items) <= max_items THEN Join(items)
    ELSE Join(Slice(items, max_items)) \o ELLIPSIS

\* durations in milliseconds handed to format_duration
MaxDurationStep == 60
DurationArgs ==
    {PyNone}
    \cup {PyInt(n) : n \in {-61000, -1000, -1, 0, 1, 999, 1000, 1001, 9000,
                            59999, 60000, 61000, 285000, 383000, 599000,
                            600000, 3599999, 3600000, 3661000}}
    \cup {PyInt(k * 7919) : k \in 1..MaxDurationStep}

\* lists of names and thresholds handed to format_list
MaxListLen == 4
ListItems == {TAG_ROCK, TAG_POP, TAG_JAZZ}
ListArgs ==
    UNION {[1..n -> ListItems] : n \in 0..MaxListLen}
Thresholds == 0..(MaxListLen + 1)

NoFormatCall == [fn |-> "", ms |-> PyNone, items |-> <<>>, max_items |-> 0]

FormatInit ==
    /\ fpc = "idle"
    /\ fcall = NoFormatCall
    /\ fout = <<>>

FormatDuration(ms) ==
    /\ fpc = "idle"
    /\ fcall' = [fn |-> "format_duration", ms |-> ms, items |-> <<>>,
                 max_items |-> 0]
    /\ fout' = format_duration(ms)
    /\ fpc' = "done"
    /\ UNCHANGED nonFormat

FormatList(items, max_items) ==
    /\ fpc = "idle"
    /\ fcall' = [fn |-> "format_list", ms |-> PyNone, items |-> items,
                 max_items |-> max_items]
    /\ fout' = format_list(items, max_items)
    /\ fpc' = "done"
    /\ UNCHANGED nonFormat

\* the function has returned; the next call may be made
FormatReset ==
    /\ fpc = "done"
    /\ fpc' = "idle"
    /\ fcall' = NoFormatCall
    /\ fout' = <<>>
    /\ UNCHANGED nonFormat

FormatNext ==
    \/ \E ms \in DurationArgs : FormatDuration(ms)
    \/ \E items \in ListArgs, m \in Thresholds : FormatList(items, m)
    \/ FormatReset

----------------------------------------------------------------------------
(* Properties of the formatting functions *)

\* the text reads M:SS for the whole seconds s: SS two digits, value s mod 60,
\* M the numeral of s div 60 without padding
ReadsAsMinSec(text, s) ==
    /\ Len(text) >= 4
    /\ text[Len(text) - 2] = ":"
    /\ LET mm == SubSeq(text, 1, Len(text) - 3)
           ss == SubSeq(text, Len(text) - 1, Len(text))
       IN  /\ IsNumeral(mm)
           /\ \A k \in 1..2 : \E d \in 0..9 : Digit[d + 1] = ss[k]
           /\ NumeralValue(ss) \in 0..59
           /\ NumeralValue(ss) = s % 60
           /\ NumeralValue(mm) = s \div 60
           /\ 60 * NumeralValue(mm) + NumeralValue(ss) = s

\* C21: format_duration of a positive integer ms reads M:SS with
\* M = (ms div 1000) div 60, not wrapped at 60, and SS = (ms div 1000) mod 60
\* in exactly two digits; 3600000 gives "60:00"; 0, a negative value and None
\* give "0:00".
C21_DurationMinSec ==
    (fpc = "done" /\ fcall.fn = "format_duration")
        => /\ (fcall.ms.type = "int" /\ fcall.ms.val[1] > 0)
                => ReadsAsMinSec(fout, fcall.ms.val[1] \div 1000)
           /\ fcall.ms = [type |-> "int", val |-> <<3600000>>]
                => fout = <<"6", "0", ":", "0", "0">>
           /\ (fcall.ms.type = "NoneType"
               \/ (fcall.ms.type = "int" /\ fcall.ms.val[1] <= 0))
                => fout = <<"0", ":", "0", "0">>

\* an hour and more was formatted
C21_Witness ==
    /\ fpc = "done"
    /\ fcall.fn = "format_duration"
    /\ fcall.ms = PyInt(3661000)
    /\ fout = <<"6", "1", ":", "0", "1">>

\* the items one after the other, each but the last followed by ", "
RECURSIVE Listed(_)
Listed(items) ==
    IF Len(items) = 0 THEN <<>>
    ELSE IF Len(items) = 1 THEN items[1]
    ELSE items[1] \o <<",", " ">> \o Listed(Tail(items))

EndsWithEllipsis(text) ==
    /\ Len(text) >= 5
    /\ SubSeq(text, Len(text) - 4, Len(text)) = <<",", " ", ".", ".", ".">>

\* C22: format_list gives "None" for an empty list, all items joined by ", "
\* and no ellipsis for a list of at most max_items items, and the first
\* max_items items joined by ", " followed by ", ..." for a longer list.
C22_ListTruncation ==
    (fpc = "done" /\ fcall.fn = "format_list")
        => LET n == Len(fcall.items)
               m == fcall.max_items
           IN  /\ n = 0 => fout = <<"N", "o", "n", "e">>
               /\ (0 < n /\ n <= m)
                    => fout = Listed(fcall.items) /\ ~EndsWithEllipsis(fout)
               /\ n > m
                    => fout = Listed([k \in 1..m |-> fcall.items[k]])
                                \o <<",", " ", ".", ".", ".">>

\* a list of four names was cut at two
C22_Witness ==
    /\ fpc = "done"
    /\ fcall.fn = "format_list"
    /\ Len(fcall.items) = 4
    /\ fcall.max_items = 2
    /\ EndsWithEllipsis(fout)

----------------------------------------------------------------------------
(* The command layer: main and the four handlers (src/main.py) *)

PFX_ERROR ==
    <<"\n", "E", "r", "r", "o", "r", ":", " ">>

PFX_API_ERROR ==
    <<"\n", "A", "P", "I", " ", "E", "r", "r", "o", "r", ":", " ">>

MSG_INTERRUPTED ==
    <<"\n", "\n", "I", "n", "t", "e", "r", "r", "u", "p", "t", "e", "d", " ",
      "b", "y", " ", "u", "s", "e", "r", ".">>

PFX_UNEXPECTED ==
    <<"\n", "U", "n", "e", "x", "p", "e", "c", "t", "e", "d", " ", "e", "r",
      "r", "o", "r", ":", " ">>

UNKNOWN ==
    <<"U", "n", "k", "n", "o", "w", "n">>

NOT_AVAILABLE ==
    <<"N", "/", "A">>

KEY_ERROR_NAME ==
    <<"'", "n", "a", "m", "e", "'">>

INC_ARTIST_INFO ==
    <<"t", "a", "g", "s", "+", "g", "e", "n", "r", "e", "s", "+", "a", "l",
      "i", "a", "s", "e", "s">>

INC_ALBUM_INFO ==
    <<"a", "r", "t", "i", "s", "t", "-", "c", "r", "e", "d", "i", "t", "s",
      "+", "l", "a", "b", "e", "l", "s", "+", "t", "a", "g", "s", "+", "g",
      "e", "n", "r", "e", "s">>

INC_ALBUM_TRACKS ==
    <<"r", "e", "c", "o", "r", "d", "i", "n", "g", "s", "+", "a", "r", "t",
      "i", "s", "t", "-", "c", "r", "e", "d", "i", "t", "s">>


Commands == {"artist-info", "artist-releases", "album-info", "album-tracks"}
ArtistCommands == {"artist-info", "artist-releases"}

\* the exit status of a process that has not ended
Running == -1

\* the resolver a handler calls
KindOf(c) == IF c \in ArtistCommands THEN "artist" ELSE "release"

\* the --limit default
DEFAULT_LIMIT == 25

\* parsed arguments: --artist exists for the album commands, --limit, --type
\* and --status for artist-releases
Args(q, a, l, t, st) ==
    [query |-> q, artist |-> a, limit |-> l, type |-> t, status |-> st]

ArgsOf(c) ==
    IF c = "artist-releases"
    THEN {Args(q, PyNone, l, t, st) :
            q \in Queries, l \in {DEFAULT_LIMIT, 250},
            t \in {PyNone, PyStr(TYPE_ALBUM)},
            st \in {PyNone, PyStr(STATUS_OFFICIAL)}}
    ELSE IF c = "artist-info"
    THEN {Args(q, PyNone, DEFAULT_LIMIT, PyNone, PyNone) : q \in Queries}
    ELSE {Args(q, a, DEFAULT_LIMIT, PyNone, PyNone) :
            q \in Queries, a \in ArtistArgs}

NoArgs == Args(<<>>, PyNone, DEFAULT_LIMIT, PyNone, PyNone)

\* an entry of the log of outbound calls; res is NoResult while the call runs
Outbound(o, call, res) == [op |-> o, call |-> call, res |-> res]

\* the search call the resolver made, as the client method builds it
SearchOutbound ==
    IF searchArg'.method = "search_artist"
    THEN search_artist(searchArg'.query, searchArg'.limit)
    ELSE search_release(searchArg'.query, searchArg'.limit)

\* the lookup call of each handler
LookupOf(c, mbid) ==
    CASE c = "artist-info" -> lookup_artist(mbid, PyStr(INC_ARTIST_INFO))
      [] c = "artist-releases" -> lookup_artist(mbid, PyNone)
      [] c = "album-info" -> lookup_release(mbid, PyStr(INC_ALBUM_INFO))
      [] c = "album-tracks" -> lookup_release(mbid, PyStr(INC_ALBUM_TRACKS))

\* what the process printed to the error stream, and its exit status
End(err, code) == [err |-> err, code |-> code]

\* mutant: a resolution failure is reported like a service failure
ExitOf_ValueErrorAsApi(r) ==
    CASE r.exc \in {"ValueError", "APIError"} -> End(PFX_API_ERROR \o r.msg, 2)
      [] r.exc = "KeyboardInterrupt" -> End(MSG_INTERRUPTED, 130)
      [] OTHER -> End(PFX_UNEXPECTED \o r.msg, 1)

\* mutant: a service failure is reported like a resolution failure
ExitOf_ApiAsValueError(r) ==
    CASE r.exc \in {"ValueError", "APIError"} -> End(PFX_ERROR \o r.msg, 1)
      [] r.exc = "KeyboardInterrupt" -> End(MSG_INTERRUPTED, 130)
      [] OTHER -> End(PFX_UNEXPECTED \o r.msg, 1)

\* what leaves a handler: SystemExit with the status and the text it printed
\* to the error stream, or the exception it did not catch
Leaves(exc, msg, err, code) == [exc |-> exc, msg |-> msg, err |-> err, code |-> code]

\* the except clauses of a handler, e.g. lines 199-204
HandlerExcept(r) ==
    CASE r.exc = "ValueError" -> Leaves("SystemExit", <<>>, PFX_ERROR \o r.msg, 1)
      [] r.exc = "APIError" ->
             Leaves("SystemExit", <<>>, PFX_API_ERROR \o r.msg, 2)
      [] OTHER -> Leaves(r.exc, r.msg, <<>>, 0)

\* mutant: main's last clause also catches SystemExit
MainExcept_CatchesSystemExit(x) ==
    CASE x.exc = "KeyboardInterrupt" -> End(x.err \o MSG_INTERRUPTED, 130)
      [] x.exc = "SystemExit" ->
             End(x.err \o PFX_UNEXPECTED \o IntToStr(x.code), 1)
      [] OTHER -> End(x.err \o PFX_UNEXPECTED \o x.msg, 1)

\* mutant: main reports an unexpected exception as a service failure
MainExcept_UnexpectedAsApi(x) ==
    CASE x.exc = "SystemExit" -> End(x.err, x.code)
      [] x.exc = "KeyboardInterrupt" -> End(x.err \o MSG_INTERRUPTED, 130)
      [] OTHER -> End(x.err \o PFX_API_ERROR \o x.msg, 2)

\* main, lines 484-491: SystemExit is no Exception and ends the process with
\* its status; KeyboardInterrupt and any Exception are reported by main
MainExcept(x) ==
    CASE x.exc = "SystemExit" -> End(x.err, x.code)
      [] x.exc = "KeyboardInterrupt" -> End(x.err \o MSG_INTERRUPTED, 130)
      [] OTHER -> End(x.err \o PFX_UNEXPECTED \o x.msg, 1)

\* an exception raised inside a handler: the handler's except clauses print
\* and call sys.exit; anything else reaches main's except clauses
ExitOf(r) == MainExcept(HandlerExcept(r))

NO_RELEASES ==
    <<"\n", "N", "o", " ", "r", "e", "l", "e", "a", "s", "e", "s", " ", "f",
      "o", "u", "n", "d", " ", "f", "o", "r", " ">>

NO_TRACKS ==
    <<"N", "o", " ", "t", "r", "a", "c", "k", " ", "i", "n", "f", "o", "r",
      "m", "a", "t", "i", "o", "n", " ", "a", "v", "a", "i", "l", "a", "b",
      "l", "e", ".">>

TITLE_AIRBAG ==
    <<"A", "i", "r", "b", "a", "g">>


\* at most this many tags or genres are read and shown
TAG_DISPLAY_MAX == 10

\* a list of n tag (or genre) entries, each with a name
TagList(n) == [k \in 1..n |-> [name |-> <<"t">> \o IntToStr(k), count |-> k]]

\* documents a lookup can return
ArtistDocs ==
    {[id |-> ID_FIRST, name |-> NAME_RADIOHEAD],
     [id |-> ID_FIRST, name |-> NAME_RADIOHEAD,
      tags |-> <<[name |-> TAG_ROCK, count |-> 1]>>],
     [id |-> ID_FIRST, name |-> NAME_RADIOHEAD, tags |-> <<[count |-> 1]>>],
     [id |-> ID_FIRST, name |-> NAME_RADIOHEAD,
      tags |-> TagList(TAG_DISPLAY_MAX + 1), genres |-> TagList(2)],
     [id |-> ID_FIRST, name |-> NAME_RADIOHEAD,
      tags |-> TagList(TAG_DISPLAY_MAX), genres |-> TagList(TAG_DISPLAY_MAX + 2)]}

\* tracks of a medium: with a length, with a negative length, with a null
\* length, and with neither position nor length
Tracks ==
    <<[position |-> 1, title |-> TITLE_AIRBAG, length |-> PyInt(285000)],
      [position |-> 2, title |-> NAME_OK_COMPUTER, length |-> PyInt(-5)],
      [position |-> 3, title |-> NAME_RADIOHEAD, length |-> PyNone],
      [title |-> TITLE_AIRBAG]>>

ReleaseDocs ==
    {[id |-> ID_FIRST, title |-> NAME_OK_COMPUTER],
     [id |-> ID_FIRST, title |-> NAME_OK_COMPUTER, media |-> <<>>],
     [id |-> ID_FIRST, title |-> NAME_OK_COMPUTER,
      tags |-> <<[count |-> 1]>>,
      media |-> <<[position |-> 1]>>],
     [id |-> ID_FIRST, title |-> NAME_OK_COMPUTER,
      tags |-> TagList(TAG_DISPLAY_MAX + 1),
      media |-> <<[position |-> 1, tracks |-> SubSeq(Tracks, 1, 2)]>>],
     [id |-> ID_FIRST, title |-> NAME_OK_COMPUTER,
      media |-> <<[position |-> 1, tracks |-> SubSeq(Tracks, 1, 2)],
                  [position |-> 2, tracks |-> SubSeq(Tracks, 3, 4)]>>]}

BrowseDocs ==
    {[releases |-> <<>>],
     [releases |-> <<[id |-> ID_SECOND, title |-> NAME_OK_COMPUTER]>>]}

\* what the transport can do with a lookup or a browse request
Failures ==
    {Transport("HTTPError", c, <<"N", "o">>, <<>>) : c \in {404, 503}}
    \cup {Transport("URLError", 0, <<"D", "o", "w", "n">>, <<>>)}
    \cup {Transport("Exception", 0, <<"D", "o", "w", "n">>, <<>>)}
    \cup InterruptTransports

LookupTransports(c) ==
    {Transport("ok", 200, <<>>, d) :
        d \in IF c \in ArtistCommands THEN ArtistDocs ELSE ReleaseDocs}
    \cup Failures

BrowseTransports ==
    {Transport("ok", 200, <<>>, d) : d \in BrowseDocs} \cup Failures

\* what a handler printed to the output stream
Shown(heading, id, tags, genres, notice, rows) ==
    [heading |-> heading, id |-> id, tags |-> tags, genres |-> genres,
     notice |-> notice, rows |-> rows]

NothingShown == Shown(<<>>, <<>>, <<>>, <<>>, <<>>, <<>>)

CmdInit ==
    /\ cpc = "start"
    /\ cmd = "artist-info"
    /\ cargs = NoArgs
    /\ clog = <<>>
    /\ entityDoc = <<>>
    /\ listing = <<>>
    /\ shown = NothingShown
    /\ stderr = <<>>
    /\ exit = Running
    /\ cint = <<>>

\* the process ends with the exception r
Die(r) ==
    /\ cpc' = "exited"
    /\ stderr' = ExitOf(r).err
    /\ exit' = ExitOf(r).code

\* the result res of the call that was running is written to the log
Logged(res) == [clog EXCEPT ![Len(clog)].res = res]

\* main parses the arguments and calls the handler, which calls the resolver
\* with args.query (and args.artist, None when it is empty)
Run(c, a) ==
    /\ cpc = "start"
    /\ a \in ArgsOf(c)
    /\ cmd' = c
    /\ cargs' = a
    /\ ResolveBegin(KindOf(c), a.query,
                    IF Truthy(a.artist) THEN a.artist ELSE PyNone)
    /\ cpc' = "resolving"
    /\ clog' = IF rpc' = "searching"
               THEN Append(clog, Outbound("search", SearchOutbound, NoResult))
               ELSE clog
    /\ UNCHANGED <<entityDoc, listing, shown, stderr, exit, cint>>
    /\ UNCHANGED nonCmd

\* mutant: a search that failed is made once more
CmdSearchAnswer_Retry(tr) ==
    /\ cpc = "resolving"
    /\ rpc = "searching"
    /\ tr \in SearchTransports(rkind)
    /\ resp' = MakeRequestResult(tr)
    /\ IF resp'.kind = "raise" /\ resp'.exc = "APIError" /\ Len(clog) < 2
       THEN /\ rpc' = "searching"
            /\ calls' = calls + 1
            /\ clog' = Append(Logged(resp'),
                              Outbound("search", clog[Len(clog)].call, NoResult))
            /\ UNCHANGED rout
       ELSE /\ rpc' = "done"
            /\ rout' = IF resp'.kind = "raise" THEN resp'
                       ELSE FromSearchDocument(rkind, query, artist, resp'.doc)
            /\ clog' = Logged(resp')
            /\ UNCHANGED calls
    /\ cint' = IF tr.t = "KeyboardInterrupt" THEN tr.text ELSE cint
    /\ UNCHANGED <<rkind, query, artist, searchArg>>
    /\ UNCHANGED <<cpc, cmd, cargs, entityDoc, listing, shown, stderr, exit>>
    /\ UNCHANGED nonCmd

\* the resolver's search call returns or raises
CmdSearchAnswer(tr) ==
    /\ cpc = "resolving"
    /\ SearchEnd(tr)
    /\ clog' = Logged(resp')
    /\ cint' = IF tr.t = "KeyboardInterrupt" THEN tr.text ELSE cint
    /\ UNCHANGED <<cpc, cmd, cargs, entityDoc, listing, shown, stderr, exit>>
    /\ UNCHANGED nonCmd

\* the resolver has returned or raised: the handler calls the lookup with the
\* identifier, or the exception ends the process
AfterResolve ==
    /\ cpc = "resolving"
    /\ rpc = "done"
    /\ IF rout.kind = "return"
       THEN /\ cpc' = "lookup"
            /\ clog' = Append(clog, Outbound("lookup", LookupOf(cmd, rout.doc),
                                             NoResult))
            /\ UNCHANGED <<stderr, exit>>
       ELSE /\ Die(rout)
            /\ UNCHANGED clog
    /\ UNCHANGED <<cmd, cargs, entityDoc, listing, shown, cint>>
    /\ UNCHANGED <<resolverVars, nonCmd>>

\* mutant: every handler goes on to the browse call
LookupAnswer_AlwaysBrowse(tr) ==
    /\ cpc = "lookup"
    /\ tr \in LookupTransports(cmd)
    /\ LET res == MakeRequestResult(tr)
       IN  /\ cint' = IF tr.t = "KeyboardInterrupt" THEN tr.text ELSE cint
           /\ IF res.kind = "raise"
              THEN /\ Die(res)
                   /\ clog' = Logged(res)
                   /\ UNCHANGED entityDoc
              ELSE /\ entityDoc' = res.doc
                   /\ UNCHANGED <<stderr, exit>>
                   /\ cpc' = "browse"
                   /\ clog' = Append(Logged(res),
                          Outbound("browse",
                              ArtistReleasesBrowse(rout.doc,
                                  cargs.limit, cargs.type, cargs.status),
                              NoResult))
    /\ UNCHANGED <<cmd, cargs, listing, shown>>
    /\ UNCHANGED <<resolverVars, nonCmd>>

\* the lookup returns or raises; artist-releases goes on to the browse call
LookupAnswer(tr) ==
    /\ cpc = "lookup"
    /\ tr \in LookupTransports(cmd)
    /\ LET res == MakeRequestResult(tr)
       IN  /\ cint' = IF tr.t = "KeyboardInterrupt" THEN tr.text ELSE cint
           /\ IF res.kind = "raise"
              THEN /\ Die(res)
                   /\ clog' = Logged(res)
                   /\ UNCHANGED entityDoc
              ELSE /\ entityDoc' = res.doc
                   /\ UNCHANGED <<stderr, exit>>
                   /\ IF cmd = "artist-releases"
                      THEN /\ cpc' = "browse"
                           /\ clog' = Append(Logged(res),
                                  Outbound("browse",
                                      ArtistReleasesBrowse(rout.doc,
                                          cargs.limit, cargs.type, cargs.status),
                                      NoResult))
                      ELSE /\ cpc' = "render"
                           /\ clog' = Logged(res)
    /\ UNCHANGED <<cmd, cargs, listing, shown>>
    /\ UNCHANGED <<resolverVars, nonCmd>>

\* the browse call of artist-releases returns or raises
BrowseAnswer(tr) ==
    /\ cpc = "browse"
    /\ tr \in BrowseTransports
    /\ LET res == MakeRequestResult(tr)
       IN  /\ cint' = IF tr.t = "KeyboardInterrupt" THEN tr.text ELSE cint
           /\ clog' = Logged(res)
           /\ IF res.kind = "raise"
              THEN /\ Die(res)
                   /\ UNCHANGED listing
              ELSE /\ listing' = res.doc
                   /\ cpc' = "render"
                   /\ UNCHANGED <<stderr, exit>>
    /\ UNCHANGED <<cmd, cargs, entityDoc, shown>>
    /\ UNCHANGED <<resolverVars, nonCmd>>

\* tags[:10] (or genres[:10]) of a document
FirstTags(doc, key) == Slice(Get(doc, key, <<>>), TAG_DISPLAY_MAX)

\* tag['name'] can be read for each of them
TagsReadable(doc, key) ==
    \A i \in 1..Len(FirstTags(doc, key)) :
        "name" \in DOMAIN FirstTags(doc, key)[i]

\* the text printed after "Tags:" or "Genres:", nothing for an empty list
TagLine(doc, key) ==
    LET tags == Get(doc, key, <<>>)
        names == [k \in 1..Len(FirstTags(doc, key)) |->
                     FirstTags(doc, key)[k].name]
    IN  IF tags = <<>> THEN <<>>
        ELSE format_list(names, TAG_DISPLAY_MAX)

\* f"{position:>2}": the position right-aligned in two columns, '?' if absent
PositionText(track) ==
    IF "position" \notin DOMAIN track THEN <<" ", "?">>
    ELSE IF track.position < 10 THEN <<" ">> \o IntToStr(track.position)
    ELSE IntToStr(track.position)

\* format_duration(length) if length else "?"
DurationText(track) ==
    LET length == Get(track, "length", PyInt(0))
    IN  IF Truthy(length) THEN format_duration(length) ELSE <<"?">>

\* the line printed for a track of medium number m
TrackRow(m, track) ==
    [medium |-> m,
     position |-> PositionText(track),
     title |-> Get(track, "title", UNKNOWN),
     duration |-> DurationText(track)]

\* the track lines of the media from number m on, in printing order
RECURSIVE TrackRows(_, _)
TrackRows(media, m) ==
    IF m > Len(media) THEN <<>>
    ELSE LET tracks == Get(media[m], "tracks", <<>>)
         IN  [k \in 1..Len(tracks) |-> TrackRow(m, tracks[k])]
                 \o TrackRows(media, m + 1)

\* the lines printed for the releases of a browse document
ReleaseRows(releases) ==
    [k \in 1..Len(releases) |->
        [title |-> Get(releases[k], "title", UNKNOWN),
         id |-> Get(releases[k], "id", NOT_AVAILABLE)]]

\* mutant: an empty result is reported as a resolution failure
EmptyResult_Fails ==
    /\ cpc' = "exited"
    /\ exit' = 1
    /\ stderr' = PFX_ERROR \o NO_TRACKS

\* the handler returns normally and main ends
ReturnsNormally ==
    /\ cpc' = "exited"
    /\ exit' = 0
    /\ UNCHANGED stderr

\* return after the "No releases found" / "No track information" message
EmptyResult == ReturnsNormally

\* cmd_artist_info, lines 159-197
RenderArtistInfo ==
    LET heading == Get(entityDoc, "name", UNKNOWN)
        id == Get(entityDoc, "id", NOT_AVAILABLE)
    IN  IF ~TagsReadable(entityDoc, "tags")
        THEN /\ shown' = Shown(heading, id, <<>>, <<>>, <<>>, <<>>)
             /\ Die(Raise("KeyError", KEY_ERROR_NAME))
        ELSE IF ~TagsReadable(entityDoc, "genres")
        THEN /\ shown' = Shown(heading, id, TagLine(entityDoc, "tags"), <<>>,
                               <<>>, <<>>)
             /\ Die(Raise("KeyError", KEY_ERROR_NAME))
        ELSE /\ shown' = Shown(heading, id, TagLine(entityDoc, "tags"),
                               TagLine(entityDoc, "genres"), <<>>, <<>>)
             /\ ReturnsNormally

\* cmd_artist_releases, lines 234-255
RenderArtistReleases ==
    LET artist_name == Get(entityDoc, "name", UNKNOWN)
        releases == Get(listing, "releases", <<>>)
    IN  IF releases = <<>>
        THEN /\ shown' = Shown(artist_name, <<>>, <<>>, <<>>,
                               NO_RELEASES \o artist_name \o <<".">>, <<>>)
             /\ EmptyResult
        ELSE /\ shown' = Shown(artist_name, <<>>, <<>>, <<>>, <<>>,
                               ReleaseRows(releases))
             /\ ReturnsNormally

\* cmd_album_info, lines 283-318
RenderAlbumInfo ==
    LET heading == Get(entityDoc, "title", UNKNOWN)
        id == Get(entityDoc, "id", NOT_AVAILABLE)
    IN  IF ~TagsReadable(entityDoc, "tags")
        THEN /\ shown' = Shown(heading, id, <<>>, <<>>, <<>>, <<>>)
             /\ Die(Raise("KeyError", KEY_ERROR_NAME))
        ELSE /\ shown' = Shown(heading, id, TagLine(entityDoc, "tags"), <<>>,
                               <<>>, <<>>)
             /\ ReturnsNormally

\* cmd_album_tracks, lines 345-378
RenderAlbumTracks ==
    LET heading == Get(entityDoc, "title", UNKNOWN)
        media == Get(entityDoc, "media", <<>>)
    IN  IF media = <<>>
        THEN /\ shown' = Shown(heading, <<>>, <<>>, <<>>, NO_TRACKS, <<>>)
             /\ EmptyResult
        ELSE /\ shown' = Shown(heading, <<>>, <<>>, <<>>, <<>>,
                               TrackRows(media, 1))
             /\ ReturnsNormally

\* the handler prints what the lookup and the browse returned and returns;
\* tag['name'] raises KeyError for a tag or genre without a name
Render ==
    /\ cpc = "render"
    /\ CASE cmd = "artist-info" -> RenderArtistInfo
         [] cmd = "artist-releases" -> RenderArtistReleases
         [] cmd = "album-info" -> RenderAlbumInfo
         [] cmd = "album-tracks" -> RenderAlbumTracks
    /\ UNCHANGED <<cmd, cargs, clog, entityDoc, listing, cint>>
    /\ UNCHANGED <<resolverVars, nonCmd>>

PHASE_PRINT == <<"p", "r", "i", "n", "t">>

\* a user interrupt arrives while the handler prints
RenderInterrupt ==
    /\ cpc = "render"
    /\ cint' = PHASE_PRINT
    /\ Die(Raise("KeyboardInterrupt", <<>>))
    /\ UNCHANGED <<cmd, cargs, clog, entityDoc, listing, shown>>
    /\ UNCHANGED <<resolverVars, nonCmd>>

CmdNext ==
    \/ \E c \in Commands :
         \E a \in ArgsOf("artist-releases") \cup ArgsOf("album-info") : Run(c, a)
    \/ \E tr \in SearchTransports("artist") \cup SearchTransports("release") :
           CmdSearchAnswer(tr)
    \/ AfterResolve
    \/ \E tr \in LookupTransports("artist-info")
                   \cup LookupTransports("album-info") : LookupAnswer(tr)
    \/ \E tr \in BrowseTransports : BrowseAnswer(tr)
    \/ Render
    \/ RenderInterrupt

----------------------------------------------------------------------------
(* Properties of a command run *)

Ended == cpc = "exited"
CallsLogged(o) == {i \in 1..Len(clog) : clog[i].op = o}
ServiceFailure(res) == res.kind = "raise" /\ res.exc = "APIError"

\* C12: when the resolver of any of the four handlers fails with the 'not
\* found' ValueError, no lookup or browse call is made, and the process ends
\* with the error on the error stream and exit status 1.
C12_ResolutionFailureExit1 ==
    (cpc # "start" /\ rout.kind = "raise" /\ rout.exc = "ValueError")
        => /\ CallsLogged("lookup") = {}
           /\ CallsLogged("browse") = {}
           /\ Ended => /\ exit = 1
                       /\ stderr = <<"\n", "E", "r", "r", "o", "r", ":", " ">>
                                       \o rout.msg

\* album-tracks with --artist ended on a resolution failure
C12_Witness ==
    /\ Ended
    /\ cmd = "album-tracks"
    /\ Truthy(cargs.artist)
    /\ rout.exc = "ValueError"
    /\ exit = 1

\* C13: when a client call of the command (search, lookup or browse) raised
\* APIError, the process ends with "API Error" and the message on the error
\* stream and exit status 2.
C13_ServiceFailureExit2 ==
    \A i \in 1..Len(clog) :
        (Ended /\ ServiceFailure(clog[i].res))
            => /\ exit = 2
               /\ stderr = <<"\n", "A", "P", "I", " ", "E", "r", "r", "o", "r",
                             ":", " ">> \o clog[i].res.msg

\* the browse call of artist-releases failed
C13_Witness ==
    /\ Ended
    /\ cmd = "artist-releases"
    /\ Len(clog) = 3
    /\ clog[3].op = "browse"
    /\ ServiceFailure(clog[3].res)
    /\ exit = 2

\* C14: a user interrupt, wherever it arrives (rate-limit sleep, HTTP request,
\* printing), ends the process with exit status 130, never with 1 or 2; until
\* then it is propagating out of the resolver and no other step is taken.
C14_InterruptExit130 ==
    cint # <<>>
        => /\ Ended => exit = 130 /\ exit \notin {1, 2}
           /\ ~Ended => /\ cpc = "resolving"
                        /\ rpc = "done"
                        /\ rout.kind = "raise"
                        /\ rout.exc = "KeyboardInterrupt"

\* the interrupt arrived in the rate-limit sleep of a lookup
C14_Witness ==
    /\ Ended
    /\ cint = PHASE_SLEEP
    /\ Len(clog) > 0
    /\ clog[Len(clog)].op = "lookup"
    /\ exit = 130

SentinelReturned ==
    \E i \in 1..Len(clog) :
        /\ clog[i].op \in {"lookup", "browse"}
        /\ clog[i].res.kind = "return"
        /\ DOMAIN clog[i].res.doc = {"error", "message"}
        /\ clog[i].res.doc.error = "not_found"

\* C15: when a lookup or browse call of a handler returned the not-found
\* sentinel, the handler renders nothing and the process ends with exit
\* status 1.
C15_SentinelChecked ==
    SentinelReturned
        => /\ shown = NothingShown
           /\ Ended => exit = 1

\* C16: a call that ended in a service failure is the last call of the run:
\* the search is not repeated and no lookup or browse follows; the failure is
\* on its way out of the resolver or has ended the process.
C16_NoRetries ==
    \A i \in 1..Len(clog) :
        ServiceFailure(clog[i].res)
            => /\ i = Len(clog)
               /\ \/ Ended
                  \/ cpc = "resolving" /\ rpc = "done" /\ rout = clog[i].res

\* the lookup of artist-releases failed and no browse call was made
C16_Witness ==
    /\ Ended
    /\ cmd = "artist-releases"
    /\ Len(clog) = 2
    /\ clog[1].op = "search"
    /\ clog[2].op = "lookup"
    /\ ServiceFailure(clog[2].res)

\* C17: the calls of a run are made one at a time in the order search, lookup,
\* browse: a search is the first call and its query is not identifier-shaped;
\* a lookup follows a successful resolution and carries its identifier; a
\* browse follows the lookup of artist-releases; an identifier-shaped query
\* causes no search; a run makes at most 2 calls, artist-releases at most 3.
C17_CallOrder ==
    /\ \A i \in 1..Len(clog) :
        /\ i < Len(clog) => clog[i].res.kind = "return"
        /\ clog[i].op = "search"
             => i = 1 /\ ~HasMbidShape(cargs.query)
        /\ clog[i].op = "lookup"
             => /\ \A j \in 1..(i - 1) : clog[j].op = "search"
                /\ rpc = "done"
                /\ rout.kind = "return"
                /\ clog[i].call.endpoint
                     \in {<<"a", "r", "t", "i", "s", "t", "/">> \o rout.doc,
                          <<"r", "e", "l", "e", "a", "s", "e", "/">> \o rout.doc}
        /\ clog[i].op = "browse"
             => /\ cmd = "artist-releases"
                /\ i > 1
                /\ clog[i - 1].op = "lookup"
    /\ HasMbidShape(cargs.query) => CallsLogged("search") = {}
    /\ Len(clog) <= IF cmd = "artist-releases" THEN 3 ELSE 2

\* artist-releases made its three calls and ended normally
C17_Witness ==
    /\ Ended
    /\ cmd = "artist-releases"
    /\ Len(clog) = 3
    /\ clog[1].op = "search"
    /\ clog[2].op = "lookup"
    /\ clog[3].op = "browse"
    /\ exit = 0

----------------------------------------------------------------------------
(* Properties of what a command prints *)

RenderedNormally == Ended /\ exit = 0

\* C23: in artist-info and album-info a tag list (and in artist-info a genre
\* list) of more than 10 entries is printed as its first 10 names joined by
\* ", " and followed by the ellipsis ", ...".
C23_LongTagListEllipsis ==
    (RenderedNormally /\ cmd \in {"artist-info", "album-info"})
        => \A key \in (IF cmd = "artist-info" THEN {"tags", "genres"}
                       ELSE {"tags"}) :
               LET entries == Get(entityDoc, key, <<>>)
               IN  Len(entries) > 10
                     => shown[key] = Listed([k \in 1..10 |-> entries[k].name])
                                        \o <<",", " ", ".", ".", ".">>

\* number of tracks of the first m media
RECURSIVE TrackCount(_, _)
TrackCount(media, m) ==
    IF m = 0 THEN 0
    ELSE TrackCount(media, m - 1) + Len(Get(media[m], "tracks", <<>>))

\* C24: album-tracks prints one line for every track of every medium, in
\* medium order and track order, with the track's position and title and a
\* duration that reads M:SS for a positive length and "0:00" for a length
\* that is negative or absent.
C24_EveryTrackWithDuration ==
    (RenderedNormally /\ cmd = "album-tracks"
        /\ Get(entityDoc, "media", <<>>) # <<>>)
        => LET media == entityDoc.media
           IN  /\ Len(shown.rows) = TrackCount(media, Len(media))
               /\ \A m \in 1..Len(media) :
                    \A t \in 1..Len(Get(media[m], "tracks", <<>>)) :
                      LET track == media[m].tracks[t]
                          row == shown.rows[TrackCount(media, m - 1) + t]
                          positive == /\ "length" \in DOMAIN track
                                      /\ track.length.type = "int"
                                      /\ track.length.val[1] > 0
                      IN  /\ row.medium = m
                          /\ "title" \in DOMAIN track => row.title = track.title
                          /\ "position" \in DOMAIN track
                               => row.position
                                    \in {IntToStr(track.position),
                                         <<" ">> \o IntToStr(track.position)}
                          /\ IF positive
                             THEN ReadsAsMinSec(row.duration,
                                                track.length.val[1] \div 1000)
                             ELSE row.duration = <<"0", ":", "0", "0">>

LastCallReturned(o) ==
    /\ clog # <<>>
    /\ clog[Len(clog)].op = o
    /\ clog[Len(clog)].res.kind = "return"

LastCallFailed(o) ==
    /\ clog # <<>>
    /\ clog[Len(clog)].op = o
    /\ ServiceFailure(clog[Len(clog)].res)

\* C25: when the browse of artist-releases returned a document without
\* releases, or the lookup of album-tracks a release without media, and no
\* interrupt arrived, the handler printed "No releases found" or "No track
\* information available", nothing went to the error stream, and the exit
\* status is 0.
C25_EmptyResultIsNormal ==
    (Ended /\ cint = <<>> /\ ~SentinelReturned)
        => /\ (cmd = "artist-releases" /\ LastCallReturned("browse")
                 /\ Get(listing, "releases", <<>>) = <<>>)
               => /\ exit = 0
                  /\ stderr = <<>>
                  /\ Contains(shown.notice,
                              <<"N", "o", " ", "r", "e", "l", "e", "a", "s", "e",
                                "s", " ", "f", "o", "u", "n", "d">>)
           /\ (cmd = "album-tracks" /\ LastCallReturned("lookup")
                 /\ Get(entityDoc, "media", <<>>) = <<>>)
               => /\ exit = 0
                  /\ stderr = <<>>
                  /\ Contains(shown.notice,
                              <<"N", "o", " ", "t", "r", "a", "c", "k", " ", "i",
                                "n", "f", "o", "r", "m", "a", "t", "i", "o", "n",
                                " ", "a", "v", "a", "i", "l", "a", "b", "l", "e">>)

\* artist-releases found the artist and the browse returned no releases
C25_Witness ==
    /\ Ended
    /\ cmd = "artist-releases"
    /\ LastCallReturned("browse")
    /\ listing = [releases |-> <<>>]
    /\ exit = 0

StartsWith(text, prefix) ==
    Len(text) >= Len(prefix) /\ SubSeq(text, 1, Len(prefix)) = prefix

UnexpectedReport ==
    StartsWith(stderr, <<"\n", "U", "n", "e", "x", "p", "e", "c", "t", "e", "d",
                         " ", "e", "r", "r", "o", "r", ":", " ">>)

SearchGotSentinel ==
    /\ clog # <<>>
    /\ clog[1].op = "search"
    /\ clog[1].res.kind = "return"
    /\ DOMAIN clog[1].res.doc = {"error", "message"}

\* C27: when the resolver's search call returned the 404 sentinel, the
\* resolver raises the 'not found' ValueError and returns no identifier, no
\* lookup is made, and the process ends with status 1, never 2.
C27_SearchSentinelIsNotFound ==
    SearchGotSentinel
        => /\ rout.kind = "raise"
           /\ rout.exc = "ValueError"
           /\ Contains(rout.msg, <<"n", "o", "t", " ", "f", "o", "u", "n", "d">>)
           /\ Len(clog) = 1
           /\ Ended => exit = 1 /\ exit # 2

\* album-info with --artist: the search was answered 404
C27_Witness ==
    /\ Ended
    /\ SearchGotSentinel
    /\ cmd = "album-info"
    /\ Truthy(cargs.artist)
    /\ exit = 1

\* the text a handler's except clause printed for the exception r
HandlerReport(r) ==
    IF r.exc = "ValueError"
    THEN <<"\n", "E", "r", "r", "o", "r", ":", " ">> \o r.msg
    ELSE <<"\n", "A", "P", "I", " ", "E", "r", "r", "o", "r", ":", " ">> \o r.msg

\* the exception a handler caught, if any: the resolver's ValueError or the
\* APIError of the last call
HandlerCaught ==
    {r \in {rout} : r.exc = "ValueError"}
    \cup {clog[i].res : i \in {k \in 1..Len(clog) : ServiceFailure(clog[k].res)}}

\* C28: the status a handler chose with sys.exit reaches the process
\* unchanged: after a resolution failure the status is 1, after a service
\* failure 2, the error stream holds the handler's report and nothing else,
\* and no "Unexpected error" is reported.
C28_HandlerStatusKept ==
    Ended
        => \A r \in HandlerCaught :
               /\ exit = (IF r.exc = "ValueError" THEN 1 ELSE 2)
               /\ stderr = HandlerReport(r)
               /\ ~UnexpectedReport

\* a lookup failed with the client's own "Unexpected error" APIError and the
\* process ended with the handler's status 2
C28_Witness ==
    /\ Ended
    /\ LastCallFailed("lookup")
    /\ Contains(clog[Len(clog)].res.msg, MSG_UNEXPECTED)
    /\ exit = 2

\* a KeyError has escaped the handler: from the resolver (first search result
\* without 'id') or from the printing of a tag or genre without 'name'
KeyErrorEscaped ==
    \/ rout.kind = "raise" /\ rout.exc = "KeyError"
    \/ /\ cint = <<>>
       /\ LastCallReturned("lookup")
       /\ \/ cmd \in {"artist-info", "album-info"}
                /\ ~TagsReadable(entityDoc, "tags")
          \/ cmd = "artist-info" /\ ~TagsReadable(entityDoc, "genres")

\* C29: an exception that escapes a handler and is neither a resolution
\* failure, a service failure nor an interrupt ends the process with status 1
\* and an "Unexpected error" report on the error stream.
C29_UnexpectedErrorExit1 ==
    (Ended /\ KeyErrorEscaped)
        => /\ exit = 1
           /\ UnexpectedReport
           /\ rout.exc # "ValueError"

\* artist-info printed a tag without a name
C29_Witness ==
    /\ Ended
    /\ cmd = "artist-info"
    /\ LastCallReturned("lookup")
    /\ ~TagsReadable(entityDoc, "tags")
    /\ exit = 1
    /\ rout.kind = "return"

----------------------------------------------------------------------------
(* Specifications *)

\* the request client used by one thread
Init == ClientInit /\ MbidInit /\ ResolverInit /\ RequestInit /\ CmdInit
        /\ FormatInit

Spec == Init /\ [][ClientNext]_vars

\* is_valid_mbid evaluated on arbitrary arguments
\* the client with the scheduling the interpreter gives: the clock advances,
\* the thread inside _make_request takes its next step, a sleep that is due
\* returns
SpecLive ==
    /\ Init
    /\ [][ClientNext]_vars
    /\ WF_vars(Tick)
    /\ WF_vars(RateLimitRead)
    /\ WF_vars(SleepReturn)
    /\ WF_vars(RateLimitStamp)

SpecMbid == Init /\ [][MbidNext]_vars

\* one resolution of a query, the client seen through what it returns
SpecResolve == Init /\ [][ResolverNext]_vars

\* the endpoint methods and _make_request building one request
SpecRequest == Init /\ [][RequestNext]_vars

\* one run of the program: main, a handler, the resolver and the calls
SpecCmd == Init /\ [][CmdNext]_vars

\* the formatting functions called on their own
SpecFormat == Init /\ [][FormatNext]_vars

====
